---- MODULE Spec2Model ----
(***************************************************************************)
(* Model of the GEFS ingestion and aggregation pipeline of modelo.py:      *)
(* abrir_gefs_grib, extrair_para_municipios and gerar_boletim_diario.      *)
(*                                                                         *)
(* Numbers are integers: temperatures are in hundredths of a kelvin, a     *)
(* mean is kept as the exact pair <<sum, count>>.  A missing value (NaN)   *)
(* is the empty tuple <<>>, a present value x is the tuple <<x>>.          *)
(***************************************************************************)
EXTENDS Integers, Sequences, FiniteSets, TLC

VARIABLES
    pc,           \* position of gerar_boletim_diario
    arquivo_csv,  \* config/municipios.csv as found on disk
    municipios,   \* the location table read at line 96
    i,            \* index of the next forecast hour in horas
    registros,    \* the list of per-hour data frames
    temporarios,  \* forecast hours whose scratch .grib2 file exists on disk
    chamadas,     \* number of calls of abrir_gefs_grib so far
    previsoes,    \* the concatenated, sorted frame with tp_dif and data_dia
    saida,        \* data_processed/previsao_diaria.csv: <<>> or <<df_diario>>
    erro          \* the exception that ended the run, "nenhum" if none

vars == <<pc, arquivo_csv, municipios, i, registros, temporarios, chamadas,
          previsoes, saida, erro>>

----------------------------------------------------------------------------
(* Bounds of the model *)

\* forecast hours of the schedule that the model runs through
MaxHoras == 9
\* hours a run of Spec processes successfully
MaxOk == 2
\* the last hours of the schedule that SpecAgg may process
MaxJanela == 3
\* largest cumulative precipitation value of a grid point
MaxTp == 2

----------------------------------------------------------------------------
(* Values *)

NaN == <<>>
IsNaN(x) == x = <<>>
Val(x) == <<x>>
Num(x) == x[1]

Max(a, b) == IF a >= b THEN a ELSE b
Min(a, b) == IF a <= b THEN a ELSE b

RECURSIVE SomaSeq(_)
SomaSeq(s) == IF s = <<>> THEN 0 ELSE Head(s) + SomaSeq(Tail(s))

Vars == <<"t2m", "tp", "u10", "v10">>
VarSet == {Vars[k] : k \in 1..Len(Vars)}
Colunas == {"municipio", "uf", "lat", "lon"}

----------------------------------------------------------------------------
(* The forecast-hour schedule, line 100 *)

PassoDenso == 3
FimDenso == 192
InicioEsparso == 198
PassoEsparso == 6
FimEsparso == 834

NDenso == FimDenso \div PassoDenso + 1
NEsparso == (FimEsparso - InicioEsparso) \div PassoEsparso + 1

HoraDe(k) ==
    IF k <= NDenso THEN PassoDenso * (k - 1)
    ELSE InicioEsparso + PassoEsparso * (k - NDenso - 1)

horas == [k \in 1..Min(MaxHoras, NDenso + NEsparso) |-> HoraDe(k)]

----------------------------------------------------------------------------
(* Inputs: the location table and the remote GRIB files *)

\* rank of a municipality name in the order sort_values uses (string order)
Nomes == <<"A", "B", "C">>
NomeOrd(nome) == CHOOSE k \in 1..Len(Nomes) : Nomes[k] = nome

m1 == [municipio |-> "A", uf |-> "SP", lat |-> -23, lon |-> -46]
m2 == [municipio |-> "B", uf |-> "SP", lat |-> -22, lon |-> -47]
\* same name as m1, other state
m3 == [municipio |-> "A", uf |-> "RJ", lat |-> -22, lon |-> -43]
\* coordinates outside the coverage of the grid
m4 == [municipio |-> "C", uf |-> "SP", lat |-> -10, lon |-> 400]

\* location tables of the runs of Spec
ListasRun == {<<>>, <<m1>>, <<m4>>, <<m1, m2>>, <<m1, m4>>}
\* location tables of the aggregations of SpecAgg
ListasAgg == {<<m1>>, <<m1, m2>>, <<m1, m3>>, <<m3, m1>>, <<m1, m4>>}

\* config/municipios.csv: unreadable, complete, or lacking one column
ArquivosCSV ==
    {[legivel |-> FALSE, colunas |-> {}, linhas |-> <<>>]}
    \cup {[legivel |-> TRUE, colunas |-> Colunas, linhas |-> l] : l \in ListasRun}
    \cup {[legivel |-> TRUE, colunas |-> Colunas \ {c}, linhas |-> <<m1>>] : c \in Colunas}

\* coverage of the 0.5 degree global grid of the pgrb2a.0p50 files
LatGrade == -90..90
LonGrade == 0..359

\* line 74: municipios["lon"].apply(lambda x: x + 360 if x < 0 else x)
Lon360(x) == IF x < 0 THEN x + 360 ELSE x

\* the points of a location table that lie inside the grid
PontosDe(linhas) ==
    {<<linhas[k].lat, Lon360(linhas[k].lon)>> : k \in 1..Len(linhas)}
        \cap (LatGrade \X LonGrade)

\* values of the fields other than tp (t2m in hundredths of a kelvin)
TempVals == {28315, 29315}
VentoVals == {2}
TpVals == 0..MaxTp

Uniformes(pontos, valores) == {[p \in pontos |-> x] : x \in valores}

\* the fields a file may hold for variable v
CamposDe(v, pontos, tpCampos, tempVals) ==
    IF v = "tp" THEN tpCampos
    ELSE IF v = "t2m" THEN Uniformes(pontos, tempVals)
    ELSE Uniformes(pontos, VentoVals)

\* the merged datasets abrir_gefs_grib may return (lines 52-62): the
\* variables of the set S that opened, each with its field
Datasets(pontos, varSets, tpCampos, tempVals) ==
    UNION {
        {[vars |-> S, campo |-> c] :
            c \in {f \in [S -> UNION {CamposDe(v, pontos, tpCampos, tempVals) : v \in S}] :
                     \A v \in S : f[v] \in CamposDe(v, pontos, tpCampos, tempVals)}}
        : S \in varSets}

\* the datasets of a run of Spec: any non-empty subset of the variables
DatasetsRun(linhas) ==
    Datasets(PontosDe(linhas), (SUBSET VarSet) \ {{}},
             Uniformes(PontosDe(linhas), TpVals), TempVals)

\* the datasets of SpecAgg: tp free at every point, present or not
DatasetsAgg(linhas) ==
    Datasets(PontosDe(linhas), {VarSet, VarSet \ {"tp"}},
             [PontosDe(linhas) -> TpVals], {29315})

----------------------------------------------------------------------------
(* extrair_para_municipios, lines 68-89 *)

\* ds[v].interp(latitude, longitude) at one point: NaN outside the grid
Interp(campo, lat, lon360) ==
    IF <<lat, lon360>> \in DOMAIN campo THEN Val(campo[<<lat, lon360>>]) ELSE NaN

ValorDe(ds, v, m) ==
    IF v \in ds.vars THEN Interp(ds.campo[v], m.lat, Lon360(m.lon)) ELSE NaN

\* the frame of one forecast hour, with data_previsao set (line 110)
extrair_para_municipios(ds, linhas, data_prev) ==
    [colunas |-> ds.vars \cap VarSet,
     linhas |-> [k \in 1..Len(linhas) |->
                   [municipio |-> linhas[k].municipio,
                    uf |-> linhas[k].uf,
                    data_previsao |-> data_prev,
                    t2m |-> ValorDe(ds, "t2m", linhas[k]),
                    tp |-> ValorDe(ds, "tp", linhas[k]),
                    u10 |-> ValorDe(ds, "u10", linhas[k]),
                    v10 |-> ValorDe(ds, "v10", linhas[k])]]]

----------------------------------------------------------------------------
(* The aggregation of gerar_boletim_diario, lines 118-136 *)

\* line 118: pd.concat(registros); a column exists if any frame has it
RECURSIVE ConcatLinhas(_)
ConcatLinhas(rs) ==
    IF rs = <<>> THEN <<>> ELSE Head(rs).linhas \o ConcatLinhas(Tail(rs))

ConcatColunas(rs) == UNION {rs[k].colunas : k \in 1..Len(rs)}

\* the order of sort_values(["municipio", "data_previsao"])
ChaveMenorIgual(a, b) ==
    \/ NomeOrd(a.municipio) < NomeOrd(b.municipio)
    \/ /\ a.municipio = b.municipio
       /\ a.data_previsao <= b.data_previsao

\* r placed after every row whose key is not greater: rows with equal keys
\* keep the order they had in the frame (the sort on two keys is stable)
RECURSIVE Inserir(_, _)
Inserir(r, s) ==
    IF s = <<>> THEN <<r>>
    ELSE IF ChaveMenorIgual(Head(s), r) THEN <<Head(s)>> \o Inserir(r, Tail(s))
    ELSE <<r>> \o s

\* line 122
RECURSIVE sort_values(_)
sort_values(s) ==
    IF s = <<>> THEN <<>>
    ELSE Inserir(s[Len(s)], sort_values(SubSeq(s, 1, Len(s) - 1)))

\* groupby("municipio"): the rows of one group are those of one name
MesmoGrupo(a, b) == a.municipio = b.municipio

\* the last present tp before row k among the rows of the group of row k
RECURSIVE UltimoTpAntes(_, _, _)
UltimoTpAntes(s, j, r) ==
    IF j = 0 \/ ~MesmoGrupo(s[j], r) THEN NaN
    ELSE IF ~IsNaN(s[j].tp) THEN s[j].tp
    ELSE UltimoTpAntes(s, j - 1, r)

\* a differencing that carries the last present value over a gap
DiffUltimoPresente(s, k) ==
    LET u == UltimoTpAntes(s, k - 1, s[k])
    IN IF IsNaN(s[k].tp) \/ IsNaN(u) THEN NaN ELSE Val(Num(s[k].tp) - Num(u))

\* line 123, groupby("municipio")["tp"].diff() at row k of the sorted frame
Diff(s, k) ==
    IF k = 1 \/ ~MesmoGrupo(s[k - 1], s[k]) THEN NaN
    ELSE IF IsNaN(s[k].tp) \/ IsNaN(s[k - 1].tp) THEN NaN
    ELSE Val(Num(s[k].tp) - Num(s[k - 1].tp))

\* line 123, .fillna(previsoes["tp"])
FillNa(d, tp) == IF IsNaN(d) THEN tp ELSE d

\* an increment left as it is, negative or not
ClipSemLimite(x) == x

\* line 124, .clip(lower=0)
Clip(x) == IF IsNaN(x) THEN NaN ELSE Val(Max(0, Num(x)))

\* line 127, dt.floor("D"): days since the cycle's reference time, which
\* is at 00Z (HOUR = "00")
HorasPorDia == 24
Floor_D(data_prev) == data_prev \div HorasPorDia

\* lines 122-127: the sorted frame with the columns tp_dif and data_dia
ComIncrementos(linhas) ==
    LET s == sort_values(linhas)
    IN [k \in 1..Len(s) |->
          [municipio |-> s[k].municipio,
           uf |-> s[k].uf,
           data_previsao |-> s[k].data_previsao,
           t2m |-> s[k].t2m,
           tp |-> s[k].tp,
           u10 |-> s[k].u10,
           v10 |-> s[k].v10,
           tp_dif |-> Clip(FillNa(Diff(s, k), s[k].tp)),
           data_dia |-> Floor_D(s[k].data_previsao)]]

\* the present values of column col among the rows of s with key ch
RECURSIVE Presentes(_, _, _)
Presentes(s, ch, col) ==
    IF s = <<>> THEN <<>>
    ELSE LET r == Head(s)
             resto == Presentes(Tail(s), ch, col)
         IN IF <<r.municipio, r.uf, r.data_dia>> = ch /\ ~IsNaN(r[col])
            THEN <<Num(r[col])>> \o resto
            ELSE resto

\* agg "mean": NaN for a group without a present value
Mean(xs) == IF xs = <<>> THEN NaN ELSE <<SomaSeq(xs), Len(xs)>>

\* agg "sum": missing values are skipped, an empty sum is 0
Sum(xs) == Val(SomaSeq(xs))

\* line 136: t2m - 273.15, on a mean <<sum, count>> in hundredths
ZeroCelsius == 27315
ParaCelsius(m) == IF IsNaN(m) THEN NaN ELSE <<m[1] - ZeroCelsius * m[2], m[2]>>

\* lines 128-136: one row per key (municipio, uf, data_dia) of the frame
df_diario_de(s) ==
    {[municipio |-> ch[1], uf |-> ch[2], data_dia |-> ch[3],
      t2m |-> ParaCelsius(Mean(Presentes(s, ch, "t2m"))),
      tp |-> Sum(Presentes(s, ch, "tp_dif")),
      u10 |-> Mean(Presentes(s, ch, "u10")),
      v10 |-> Mean(Presentes(s, ch, "v10"))] :
     ch \in {<<s[k].municipio, s[k].uf, s[k].data_dia>> : k \in 1..Len(s)}}

----------------------------------------------------------------------------
(* gerar_boletim_diario, lines 95-141 *)

SemArquivo == <<>>
NumHoras == Len(horas)
Terminal == {"salvo", "sem_previsao", "abortado"}

Init ==
    /\ pc = "inicio"
    /\ arquivo_csv \in ArquivosCSV
    /\ municipios = [colunas |-> {}, linhas |-> <<>>]
    /\ i = 1
    /\ registros = <<>>
    /\ temporarios = {}
    /\ chamadas = 0
    /\ previsoes = <<>>
    /\ saida = SemArquivo
    /\ erro = "nenhum"

\* line 96: read_csv succeeds, whatever columns the file has
LerMunicipios ==
    /\ pc = "inicio"
    /\ arquivo_csv.legivel
    /\ municipios' = [colunas |-> arquivo_csv.colunas, linhas |-> arquivo_csv.linhas]
    /\ pc' = "laco"
    /\ UNCHANGED <<arquivo_csv, i, registros, temporarios, chamadas, previsoes,
                   saida, erro>>

\* line 96: read_csv raises
LerMunicipiosFalha ==
    /\ pc = "inicio"
    /\ ~arquivo_csv.legivel
    /\ pc' = "abortado"
    /\ erro' = "read_csv"
    /\ UNCHANGED <<arquivo_csv, municipios, i, registros, temporarios, chamadas,
                   previsoes, saida>>

NoLaco == pc = "laco" /\ i <= NumHoras

\* abrir_gefs_grib returned None: the scratch file of the hour was created
\* with delete=False at line 37 and nothing removes it; line 106 continues
HoraPulada ==
    /\ chamadas' = chamadas + 1
    /\ temporarios' = temporarios \cup {horas[i]}
    /\ i' = i + 1
    /\ UNCHANGED <<pc, arquivo_csv, municipios, registros, previsoes, saida, erro>>

\* line 34: s3fs.S3FileSystem raises, outside every try block
HoraFalhaS3 ==
    /\ NoLaco
    /\ chamadas' = chamadas + 1
    /\ pc' = "abortado"
    /\ erro' = "S3FileSystem"
    /\ UNCHANGED <<arquivo_csv, municipios, i, registros, temporarios, previsoes,
                   saida>>

\* lines 42-44: the download fails
HoraFalhaDownload == NoLaco /\ HoraPulada

\* lines 53-55: none of the four variables opened
HoraSemDados == NoLaco /\ HoraPulada

\* lines 64-66: opening or merging the variables raises
HoraErroAbrir == NoLaco /\ HoraPulada

\* lines 104-112 with a dataset returned and the location table complete
HoraProcessada ==
    /\ NoLaco
    /\ Len(registros) < MaxOk
    /\ municipios.colunas = Colunas
    /\ \E ds \in DatasetsRun(municipios.linhas) :
         registros' = Append(registros,
                             extrair_para_municipios(ds, municipios.linhas, horas[i]))
    /\ chamadas' = chamadas + 1
    /\ temporarios' = temporarios \cup {horas[i]}
    /\ i' = i + 1
    /\ UNCHANGED <<pc, arquivo_csv, municipios, previsoes, saida, erro>>

\* lines 74, 81, 87, 88: a dataset was returned and the location table lacks
\* a column; the KeyError leaves extrair_para_municipios and the loop
HoraColunaAusente ==
    /\ NoLaco
    /\ municipios.colunas # Colunas
    /\ chamadas' = chamadas + 1
    /\ temporarios' = temporarios \cup {horas[i]}
    /\ pc' = "abortado"
    /\ erro' = "KeyError_municipios"
    /\ UNCHANGED <<arquivo_csv, municipios, i, registros, previsoes, saida>>

\* lines 70, 80: a dataset was returned and sortby or interp raises on it
HoraInterpFalha ==
    /\ NoLaco
    /\ municipios.colunas = Colunas
    /\ chamadas' = chamadas + 1
    /\ temporarios' = temporarios \cup {horas[i]}
    /\ pc' = "abortado"
    /\ erro' = "interp"
    /\ UNCHANGED <<arquivo_csv, municipios, i, registros, previsoes, saida>>

\* lines 114-116
FimSemRegistros ==
    /\ pc = "laco"
    /\ i > NumHoras
    /\ registros = <<>>
    /\ pc' = "sem_previsao"
    /\ UNCHANGED <<arquivo_csv, municipios, i, registros, temporarios, chamadas,
                   previsoes, saida, erro>>

\* lines 118-141: previsoes["tp"] at line 123 and the agg of line 128 raise
\* KeyError when no frame has the column
Salvar ==
    /\ pc = "laco"
    /\ i > NumHoras
    /\ registros # <<>>
    /\ IF VarSet \subseteq ConcatColunas(registros)
       THEN /\ previsoes' = ComIncrementos(ConcatLinhas(registros))
            /\ saida' = <<df_diario_de(previsoes')>>
            /\ pc' = "salvo"
            /\ erro' = erro
       ELSE /\ pc' = "abortado"
            /\ erro' = "KeyError_previsoes"
            /\ UNCHANGED <<previsoes, saida>>
    /\ UNCHANGED <<arquivo_csv, municipios, i, registros, temporarios, chamadas>>

Next ==
    \/ LerMunicipios
    \/ LerMunicipiosFalha
    \/ HoraFalhaS3
    \/ HoraFalhaDownload
    \/ HoraSemDados
    \/ HoraErroAbrir
    \/ HoraProcessada
    \/ HoraColunaAusente
    \/ HoraInterpFalha
    \/ FimSemRegistros
    \/ Salvar

Spec == Init /\ [][Next]_vars

----------------------------------------------------------------------------
(* The aggregation alone, on the frames a run can hold after its loop *)

\* the hours SpecAgg may process: the last MaxJanela hours of the schedule
Janela == {k \in 1..NumHoras : k > NumHoras - MaxJanela}

\* the frames of the hours ks (ascending), one dataset chosen for each
RegistrosDe(linhas, escolha) ==
    LET ks == DOMAIN escolha
        ordem == CHOOSE f \in [1..Cardinality(ks) -> ks] :
                    \A a, b \in 1..Cardinality(ks) : a < b => f[a] < f[b]
    IN [n \in 1..Cardinality(ks) |->
          extrair_para_municipios(escolha[ordem[n]], linhas, horas[ordem[n]])]

InitAgg ==
    /\ pc = "laco"
    /\ \E l \in ListasAgg :
         /\ arquivo_csv = [legivel |-> TRUE, colunas |-> Colunas, linhas |-> l]
         /\ municipios = [colunas |-> Colunas, linhas |-> l]
         /\ \E ks \in (SUBSET Janela) \ {{}} :
              \E escolha \in [ks -> DatasetsAgg(l)] :
                 registros = RegistrosDe(l, escolha)
    /\ i = NumHoras + 1
    /\ temporarios = {horas[k] : k \in 1..NumHoras}
    /\ chamadas = NumHoras
    /\ previsoes = <<>>
    /\ saida = SemArquivo
    /\ erro = "nenhum"

NextAgg == Salvar

SpecAgg == InitAgg /\ [][NextAgg]_vars

----------------------------------------------------------------------------
(* Properties *)

Tabela == saida[1]
DoNome(g) == SelectSeq(previsoes, LAMBDA r : r.municipio = g)
DoLocal(g, u) == SelectSeq(previsoes, LAMBDA r : r.municipio = g /\ r.uf = u)
NomesEm(s) == {s[k].municipio : k \in 1..Len(s)}
LocaisEm(s) == {<<s[k].municipio, s[k].uf>> : k \in 1..Len(s)}

TodosPresentes(s) == \A k \in 1..Len(s) : ~IsNaN(s[k].tp)
NaoDecrescente(s) ==
    \A k \in 2..Len(s) : Num(s[k - 1].tp) <= Num(s[k].tp)

\* the sum of the present increments of the rows s
RECURSIVE SomaIncrementos(_)
SomaIncrementos(s) ==
    IF s = <<>> THEN 0
    ELSE (IF IsNaN(Head(s).tp_dif) THEN 0 ELSE Num(Head(s).tp_dif))
         + SomaIncrementos(Tail(s))

\* the last present cumulative value of the rows s, which has one
UltimoTp(s) ==
    LET k == CHOOSE j \in 1..Len(s) :
                 /\ ~IsNaN(s[j].tp)
                 /\ \A n \in (j + 1)..Len(s) : IsNaN(s[n].tp)
    IN Num(s[k].tp)

\* C1 as stated: every increment of a location is >= 0, and the sum of the
\* increments of a location (municipio, uf) whose cumulative values are all
\* present is <= its final cumulative value, with equality when the series
\* is non-decreasing.
C1_SomaLimitadaPeloFinal ==
    pc = "salvo" =>
        \A l \in LocaisEm(previsoes) :
            LET s == DoLocal(l[1], l[2])
            IN /\ \A k \in 1..Len(s) : ~IsNaN(s[k].tp_dif) => Num(s[k].tp_dif) >= 0
               /\ TodosPresentes(s) =>
                    /\ SomaIncrementos(s) <= UltimoTp(s)
                    /\ NaoDecrescente(s) => SomaIncrementos(s) = UltimoTp(s)

\* C1 amended: every increment is >= 0 and is missing exactly where the
\* cumulative value is missing; over the time-ordered rows of one
\* municipality name (the sequence the code differences) the sum of the
\* increments is >= the last present cumulative value, with equality when
\* every value is present and the series is non-decreasing.
C1_SomaCobreOFinal ==
    pc = "salvo" =>
        \A g \in NomesEm(previsoes) :
            LET s == DoNome(g)
            IN /\ \A k \in 1..Len(s) :
                    /\ IsNaN(s[k].tp_dif) <=> IsNaN(s[k].tp)
                    /\ ~IsNaN(s[k].tp_dif) => Num(s[k].tp_dif) >= 0
               /\ (\E k \in 1..Len(s) : ~IsNaN(s[k].tp)) =>
                    SomaIncrementos(s) >= UltimoTp(s)
               /\ (TodosPresentes(s) /\ NaoDecrescente(s)) =>
                    SomaIncrementos(s) = UltimoTp(s)

\* a saved run in which a location's series drops and rises again: an
\* increment was clamped and the sum exceeds the final value
C1_Witness ==
    /\ pc = "salvo"
    /\ \E g \in NomesEm(previsoes) :
         LET s == DoNome(g)
         IN /\ Len(s) >= 3
            /\ TodosPresentes(s)
            /\ \E k \in 2..Len(s) : Num(s[k].tp) < Num(s[k - 1].tp)
            /\ SomaIncrementos(s) > UltimoTp(s)

\* the rows of the concatenated frame in the order p
Reordenar(linhas, p) == [k \in 1..Len(linhas) |-> linhas[p[k]]]

\* C2: every reordering of the concatenated hourly records before the sort
\* yields the daily table that was saved.
C2_InvariantePorPermutacao ==
    pc = "salvo" =>
        LET linhas == ConcatLinhas(registros)
        IN \A p \in Permutations(1..Len(linhas)) :
              df_diario_de(ComIncrementos(Reordenar(linhas, p))) = Tabela

\* C3: no failure of a stage of one forecast hour (the S3 client, the
\* download, the extraction, the interpolation) ends the run.
C3_HoraQueFalhaEPulada ==
    ~(pc = "abortado" /\ erro \in {"S3FileSystem", "interp"})

\* C4: between two forecast hours and at the end of the run no scratch
\* file created by abrir_gefs_grib exists.
C4_SemTemporarios == temporarios = {}

\* the hourly records produced so far
NumLinhas == Len(ConcatLinhas(registros))

C6_ExtracaoParcialNaoQuebra ==
    (pc \in Terminal /\ i > NumHoras /\ registros # <<>>) =>
        /\ \A k \in 1..Len(registros) :
              /\ registros[k].colunas # {}
              /\ Len(registros[k].linhas) = Len(municipios.linhas)
        /\ pc = "salvo"
        /\ saida # SemArquivo

\* C7: a run that ends with a configuration error of the location table
\* (unreadable, or lacking a column) has made no call of abrir_gefs_grib.
C7_ErroDeConfiguracaoAntesDoFetch ==
    (pc = "abortado" /\ erro \in {"read_csv", "KeyError_municipios"}) =>
        chamadas = 0

TemDado(r) == \E k \in 1..Len(Vars) : ~IsNaN(r[Vars[k]])

\* C8: in a saved run every hourly record holds a value of some variable,
\* and every row of the daily table has an hourly record with a value for
\* its location and day.
C8_SemDadoSemLinha ==
    pc = "salvo" =>
        /\ \A k \in 1..Len(previsoes) : TemDado(previsoes[k])
        /\ \A d \in Tabela :
              \E k \in 1..Len(previsoes) :
                 /\ <<previsoes[k].municipio, previsoes[k].uf, previsoes[k].data_dia>>
                      = <<d.municipio, d.uf, d.data_dia>>
                 /\ TemDado(previsoes[k])

\* C9: for every location (municipio, uf), in its own time-ordered rows the
\* first present value is its own increment and a value that follows a
\* present value has the increment max(0, own - previous).
C9_DiferencaPorLocal ==
    pc = "salvo" =>
        \A l \in LocaisEm(previsoes) :
            LET s == DoLocal(l[1], l[2])
            IN \A k \in 1..Len(s) :
                  /\ (k = 1 /\ ~IsNaN(s[k].tp)) => s[k].tp_dif = s[k].tp
                  /\ (k > 1 /\ ~IsNaN(s[k].tp) /\ ~IsNaN(s[k - 1].tp)) =>
                        s[k].tp_dif = Val(Max(0, Num(s[k].tp) - Num(s[k - 1].tp)))

\* the sum of the present increments of the rows of one (municipio, uf, day)
SomaDoDia(d) ==
    SomaIncrementos(SelectSeq(previsoes,
        LAMBDA r : /\ r.municipio = d.municipio
                   /\ r.uf = d.uf
                   /\ r.data_dia = d.data_dia))

====
